---- MODULE Spec2Model ----
(***************************************************************************)
(* A model of mcp-ghost: the session entry point mcp_ghost (core.py) and   *)
(* the tool-name adapter ToolNameAdapter (tools/adapter.py).               *)
(*                                                                         *)
(* Python strings that the code inspects character by character (tool     *)
(* namespaces and names, provider identifiers) are sequences of Unicode    *)
(* code points.  Texts the code only stores (summaries, error texts) are   *)
(* sequences of words.  Floats are scaled integers: times in milliseconds, *)
(* success_rate in percent.                                                *)
(***************************************************************************)
EXTENDS Integers, Sequences, FiniteSets, TLC

VARIABLES
    cfg,              \* the MCPGhostConfig object shared by the sessions
    deps_importable,  \* environment: do the imports of core.py:68-74 succeed
    llm_script,       \* environment: what the provider would answer, turn by turn
    pc,               \* pc[s]: where session s stands in mcp_ghost
    result,           \* result[s]: the MCPGhostResult returned to the caller of s
    nextId,           \* allocator: identity of the next object created
    a_ns, a_name,     \* adapter inputs: namespace and name
    a_op, a_out,      \* adapter: the operation applied last and what it returned
    m_tools,          \* build_mapping input: the list of ToolInfo
    m_provider,       \* build_mapping input: the provider string
    m_out,            \* build_mapping: the mapping returned (or NoMapping)
    f_in,             \* formatter input: the value handed to the operation
    f_op, f_out       \* formatter: the operation applied last and its result

vars == <<cfg, deps_importable, llm_script, pc, result, nextId,
          a_ns, a_name, a_op, a_out, m_tools, m_provider, m_out,
          f_in, f_op, f_out>>

sessionVars == <<cfg, deps_importable, llm_script, pc, result, nextId>>
namesVars   == <<a_ns, a_name, a_op, a_out>>
mappingVars == <<m_tools, m_provider, m_out>>
formatVars  == <<f_in, f_op, f_out>>

----------------------------------------------------------------------------
(* Bounds *)

\* largest max_iterations a configuration is given
MaxIter == 2
\* longest scripted provider conversation
MaxScript == 2
\* longest namespace and longest name
MaxLen == 2
\* longest tool list given to build_mapping
MaxTools == 2
\* how far below 100 characters the long names start
LongSpan == 10

----------------------------------------------------------------------------
(* Strings as sequences of code points *)

\* "a", "B", "_", "-", ".", and U+6D4B (a CJK letter)
Alphabet == {97, 66, 95, 45, 46, 27979}

SeqsUpTo(S, n) == UNION {[1..k -> S] : k \in 0..n}

Strs == SeqsUpTo(Alphabet, MaxLen)

Dot        == 46
Underscore == 95
Hyphen     == 45

s_openai    == <<111, 112, 101, 110, 97, 105>>
s_OpenAI    == <<79, 112, 101, 110, 65, 73>>
s_anthropic == <<97, 110, 116, 104, 114, 111, 112, 105, 99>>
s_gemini    == <<103, 101, 109, 105, 110, 105>>
s_GEMINI    == <<71, 69, 77, 73, 78, 73>>
s_invalid   == <<105, 110, 118, 97, 108, 105, 100>>
s_ANTHROPIC == <<65, 78, 84, 72, 82, 79, 80, 73, 67>>

Providers ==
    {s_openai, s_OpenAI, s_anthropic, s_ANTHROPIC, s_gemini, s_GEMINI,
     s_invalid, <<>>}

\* Mutation: the provider is compared as given, case included.
LowerOmitted(s) == s

\* str.lower() on the ASCII letters A-Z
Lower(s) == [i \in DOMAIN s |-> IF s[i] \in 65..90 THEN s[i] + 32 ELSE s[i]]

----------------------------------------------------------------------------
(* core.py: the session entry point mcp_ghost *)

Sessions == {1, 2}

NoResult == [returned |-> FALSE]

\* The configurations the sessions are started with (the fields the claims
\* speak of; mcp_ghost reads none of them).
Configs ==
    [provider : Providers,
     max_iterations : 0..MaxIter,
     system_prompt : {"You are a helpful database assistant."},
     user_prompt : {"Show me all products", "Add product 'Concurrent A'"}]

\* What the provider would answer at each turn if it were asked: plain text,
\* a call of a tool that succeeds, or a call of a tool whose invocation fails.
Scripts == SeqsUpTo({"tool_call", "failing_tool_call", "text"}, MaxScript)

IsToolCall(answer) == answer \in {"tool_call", "failing_tool_call"}

\* Mutation: the containers are module-level objects shared by every result.
FreshContainersShared(n) ==
    [tool_chain |-> 0, conversation_history |-> 1, errors |-> 2,
     execution_metadata |-> 3, token_usage |-> 4]

\* The objects a result owns: each list or dict display of core.py:77-99 and
\* 103-123, and each default_factory of core.py:53-56, creates a new object.
FreshContainers(n) ==
    [tool_chain |-> n, conversation_history |-> n + 1, errors |-> n + 2,
     execution_metadata |-> n + 3, token_usage |-> n + 4]

ContainersPerResult == 5

TokenUsageZero == [prompt_tokens |-> 0, completion_tokens |-> 0, total_tokens |-> 0]

\* Mutation: the failure result reports the success_rate of the placeholder.
DependencyFailureResultRate100(n) ==
    [returned |-> TRUE,
     success |-> FALSE,
     final_result |-> "None",
     summary |-> <<"Failed", "to", "import", "required", "dependencies">>,
     tool_chain |-> <<>>,
     conversation_history |-> <<>>,
     errors |-> << [iteration |-> 0,
                    tool_name |-> "system",
                    error |-> <<"Missing", "dependency:", "ImportError">>,
                    recovery_action |-> <<"Install", "required", "dependencies">>] >>,
     execution_metadata |->
        [total_execution_time |-> 0,
         total_iterations |-> 0,
         tools_discovered |-> 0,
         servers_connected |-> 0,
         backtrack_count |-> 0,
         success_rate |-> 100,
         token_usage |-> TokenUsageZero],
     ids |-> FreshContainers(n)]

\* core.py:77-99, the result returned when an import fails
DependencyFailureResult(n) ==
    [returned |-> TRUE,
     success |-> FALSE,
     final_result |-> "None",
     summary |-> <<"Failed", "to", "import", "required", "dependencies">>,
     tool_chain |-> <<>>,
     conversation_history |-> <<>>,
     errors |-> << [iteration |-> 0,
                    tool_name |-> "system",
                    error |-> <<"Missing", "dependency:", "ImportError">>,
                    recovery_action |-> <<"Install", "required", "dependencies">>] >>,
     execution_metadata |->
        [total_execution_time |-> 0,
         total_iterations |-> 0,
         tools_discovered |-> 0,
         servers_connected |-> 0,
         backtrack_count |-> 0,
         success_rate |-> 0,
         token_usage |-> TokenUsageZero],
     ids |-> FreshContainers(n)]

\* Mutation: the placeholder result reports failure.
PlaceholderResultFailed(n) ==
    [returned |-> TRUE,
     success |-> FALSE,
     final_result |-> "Placeholder implementation - functionality not yet implemented",
     summary |-> <<"MCP-Ghost", "placeholder", "execution", "completed">>,
     tool_chain |-> <<>>,
     conversation_history |-> <<>>,
     errors |-> <<>>,
     execution_metadata |->
        [total_execution_time |-> 100,
         total_iterations |-> 0,
         tools_discovered |-> 0,
         servers_connected |-> 0,
         backtrack_count |-> 0,
         success_rate |-> 100,
         token_usage |-> TokenUsageZero],
     ids |-> FreshContainers(n)]

\* core.py:103-123, the placeholder result
PlaceholderResult(n) ==
    [returned |-> TRUE,
     success |-> TRUE,
     final_result |-> "Placeholder implementation - functionality not yet implemented",
     summary |-> <<"MCP-Ghost", "placeholder", "execution", "completed">>,
     tool_chain |-> <<>>,
     conversation_history |-> <<>>,
     errors |-> <<>>,
     execution_metadata |->
        [total_execution_time |-> 100,
         total_iterations |-> 0,
         tools_discovered |-> 0,
         servers_connected |-> 0,
         backtrack_count |-> 0,
         success_rate |-> 100,
         token_usage |-> TokenUsageZero],
     ids |-> FreshContainers(n)]

\* Mutation: no except clause, the ImportError leaves mcp_ghost.
ImportErrorTargetUncaught == "raised"

\* Where control goes when an import of core.py:68-74 raises ImportError:
\* the except clause of core.py:75 catches it.
ImportErrorTarget == "except"

\* Mutation: the imports are tried again and again.
ImportOkTargetRetry == "import"

\* Where control goes when every import of core.py:68-74 succeeds: past the
\* try statement, to core.py:101.
ImportOkTarget == "body"

\* the caller awaits mcp_ghost(config)
Call(s) ==
    /\ pc[s] = "idle"
    /\ pc' = [pc EXCEPT ![s] = "import"]
    /\ UNCHANGED <<cfg, deps_importable, llm_script, result, nextId, namesVars, mappingVars, formatVars>>

\* core.py:67-75, the try block of imports
ImportDeps(s) ==
    /\ pc[s] = "import"
    /\ pc' = [pc EXCEPT ![s] = IF deps_importable THEN ImportOkTarget ELSE ImportErrorTarget]
    /\ UNCHANGED <<cfg, deps_importable, llm_script, result, nextId, namesVars, mappingVars, formatVars>>

\* core.py:75-99, the except clause returns the failure result
ReturnFailure(s) ==
    /\ pc[s] = "except"
    /\ result' = [result EXCEPT ![s] = DependencyFailureResult(nextId)]
    /\ nextId' = nextId + ContainersPerResult
    /\ pc' = [pc EXCEPT ![s] = "done"]
    /\ UNCHANGED <<cfg, deps_importable, llm_script, namesVars, mappingVars, formatVars>>

ReturnPlaceholderEchoingConfig(s) ==
    /\ pc[s] = "body"
    /\ result' = [result EXCEPT ![s] =
                     [PlaceholderResult(nextId) EXCEPT !.final_result = cfg[s].api_key]]
    /\ nextId' = nextId + ContainersPerResult
    /\ pc' = [pc EXCEPT ![s] = "done"]
    /\ UNCHANGED <<cfg, deps_importable, llm_script, namesVars, mappingVars, formatVars>>

\* core.py:101-123, the body after the imports returns the placeholder result
ReturnPlaceholder(s) ==
    /\ pc[s] = "body"
    /\ result' = [result EXCEPT ![s] = PlaceholderResult(nextId)]
    /\ nextId' = nextId + ContainersPerResult
    /\ pc' = [pc EXCEPT ![s] = "done"]
    /\ UNCHANGED <<cfg, deps_importable, llm_script, namesVars, mappingVars, formatVars>>

SessionInit ==
    /\ cfg \in Configs
    /\ deps_importable \in BOOLEAN
    /\ llm_script \in Scripts
    /\ pc = [s \in Sessions |-> "idle"]
    /\ result = [s \in Sessions |-> NoResult]
    /\ nextId = 0

SessionIdle ==
    /\ cfg = [provider |-> s_openai, max_iterations |-> 0,
              system_prompt |-> "You are a helpful database assistant.",
              user_prompt |-> "Show me all products"]
    /\ deps_importable = TRUE
    /\ llm_script = <<>>
    /\ pc = [s \in Sessions |-> "idle"]
    /\ result = [s \in Sessions |-> NoResult]
    /\ nextId = 0

NamesIdle ==
    /\ a_ns = <<>>
    /\ a_name = <<>>
    /\ a_op = "none"
    /\ a_out = <<>>

NoMapping == [built |-> FALSE]

MappingIdle ==
    /\ m_tools = <<>>
    /\ m_provider = <<>>
    /\ m_out = NoMapping

PyNone == [t |-> "none"]

FormatIdle ==
    /\ f_in = PyNone
    /\ f_op = "none"
    /\ f_out = <<>>

Init == SessionInit /\ NamesIdle /\ MappingIdle /\ FormatIdle

Next ==
    \E s \in Sessions :
        \/ Call(s)
        \/ ImportDeps(s)
        \/ ReturnFailure(s)
        \/ ReturnPlaceholder(s)

Spec == Init /\ [][Next]_vars

\* Two sessions, each started with a configuration of its own
PairConfigs ==
    [provider : {s_openai, s_invalid},
     api_key : {"test-key", "sk-other"},
     max_iterations : {0, MaxIter},
     system_prompt : {"You are a helpful database assistant."},
     user_prompt : {"Show me all products", "Add product 'Concurrent A'"}]

PairInit ==
    /\ cfg \in [Sessions -> PairConfigs]
    /\ deps_importable \in BOOLEAN
    /\ llm_script = <<>>
    /\ pc = [s \in Sessions |-> "idle"]
    /\ result = [s \in Sessions |-> NoResult]
    /\ nextId = 0

InitPair == PairInit /\ NamesIdle /\ MappingIdle /\ FormatIdle

SpecPair == InitPair /\ [][Next]_vars

\* The event loop runs a started coroutine to its return: mcp_ghost has no
\* await, so once called each of its steps is taken.
FairSpec ==
    /\ Spec
    /\ \A s \in Sessions :
          /\ WF_vars(ImportDeps(s))
          /\ WF_vars(ReturnFailure(s))
          /\ WF_vars(ReturnPlaceholder(s))


----------------------------------------------------------------------------
(* tools/adapter.py: ToolNameAdapter *)

Range(s) == {s[i] : i \in DOMAIN s}

\* Mutation: the character class also lets "." through.
IsOpenAICharDotAllowed(c) ==
    c \in (97..122) \cup (65..90) \cup (48..57) \cup {Underscore, Hyphen, Dot}

\* the character class [a-zA-Z0-9_-] of adapter.py:25
IsOpenAIChar(c) ==
    c \in (97..122) \cup (65..90) \cup (48..57) \cup {Underscore, Hyphen}

\* Mutation: the Gemini character class lets "-" through, as OpenAI's does.
IsGeminiCharHyphenAllowed(c) ==
    c \in (97..122) \cup (65..90) \cup (48..57) \cup {Underscore, Hyphen}

\* the character class [a-zA-Z0-9_] of adapter.py:47
IsGeminiChar(c) ==
    c \in (97..122) \cup (65..90) \cup (48..57) \cup {Underscore}

\* Mutation: the Gemini character class is used, so "-" is replaced too.
to_openai_compatible_no_hyphen(namespace, name) ==
    LET combined == namespace \o <<Underscore>> \o name
    IN  [i \in 1..Len(combined) |->
            IF IsGeminiChar(combined[i]) THEN combined[i] ELSE Underscore]

\* adapter.py:15-27: join with "_", then re.sub(r'[^a-zA-Z0-9_-]', '_', ...)
to_openai_compatible(namespace, name) ==
    LET combined == namespace \o <<Underscore>> \o name
    IN  [i \in 1..Len(combined) |->
            IF IsOpenAIChar(combined[i]) THEN combined[i] ELSE Underscore]

\* Mutation: the dotted name is sanitised like an OpenAI name, "." kept.
to_anthropic_compatible_sanitized(namespace, name) ==
    LET combined == namespace \o <<Dot>> \o name
    IN  [i \in 1..Len(combined) |->
            IF IsOpenAIChar(combined[i]) \/ combined[i] = Dot
            THEN combined[i] ELSE Underscore]

\* adapter.py:30-36
to_anthropic_compatible(namespace, name) == namespace \o <<Dot>> \o name

\* adapter.py:39-48: join with "_", then re.sub(r'[^a-zA-Z0-9_]', '_', ...)
to_gemini_compatible(namespace, name) ==
    LET combined == namespace \o <<Underscore>> \o name
    IN  [i \in 1..Len(combined) |->
            IF IsGeminiChar(combined[i]) THEN combined[i] ELSE Underscore]

\* what an operation leaves instead of a string when it raises IndexError
IndexErrorRaised == <<-1>>

\* Mutation: no test for "_"; parts[1] raises IndexError when split gives
\* one part.
from_openai_compatible_unguarded(openai_name) ==
    IF Underscore \in Range(openai_name)
    THEN LET k == CHOOSE i \in DOMAIN openai_name :
                      /\ openai_name[i] = Underscore
                      /\ \A j \in 1..(i - 1) : openai_name[j] # Underscore
         IN  SubSeq(openai_name, 1, k - 1) \o <<Dot>>
                \o SubSeq(openai_name, k + 1, Len(openai_name))
    ELSE IndexErrorRaised

\* Mutation: rsplit("_", 1) cuts at the last underscore.
from_openai_compatible_rsplit(openai_name) ==
    IF Underscore \in Range(openai_name)
    THEN LET k == CHOOSE i \in DOMAIN openai_name :
                      /\ openai_name[i] = Underscore
                      /\ \A j \in (i + 1)..Len(openai_name) :
                            openai_name[j] # Underscore
         IN  SubSeq(openai_name, 1, k - 1) \o <<Dot>>
                \o SubSeq(openai_name, k + 1, Len(openai_name))
    ELSE openai_name

\* adapter.py:51-56: split("_", 1) cuts at the first underscore
from_openai_compatible(openai_name) ==
    IF Underscore \in Range(openai_name)
    THEN LET k == CHOOSE i \in DOMAIN openai_name :
                      /\ openai_name[i] = Underscore
                      /\ \A j \in 1..(i - 1) : openai_name[j] # Underscore
         IN  SubSeq(openai_name, 1, k - 1) \o <<Dot>>
                \o SubSeq(openai_name, k + 1, Len(openai_name))
    ELSE openai_name

adapt_for_provider_default_openai(namespace, name, provider) ==
    LET p == Lower(provider)
    IN  IF p = s_anthropic THEN to_anthropic_compatible(namespace, name)
        ELSE IF p = s_gemini THEN to_gemini_compatible(namespace, name)
        ELSE to_openai_compatible(namespace, name)

\* adapter.py:59-81
adapt_for_provider(namespace, name, provider) ==
    LET p == Lower(provider)
    IN  IF p = s_openai THEN to_openai_compatible(namespace, name)
        ELSE IF p = s_anthropic THEN to_anthropic_compatible(namespace, name)
        ELSE IF p = s_gemini THEN to_gemini_compatible(namespace, name)
        ELSE namespace \o <<Dot>> \o name

\* adapter.py:98, f"{tool.namespace}.{tool.name}"
original_name(tool) == tool.namespace \o <<Dot>> \o tool.name

EmptyMapping == [key \in {} |-> <<>>]

\* Mutation: a key that is already present keeps its value (setdefault).
SetItemIfAbsent(mapping, key, value) ==
    [x \in DOMAIN mapping \cup {key} |->
        IF x \in DOMAIN mapping THEN mapping[x] ELSE value]

\* adapter.py:99, mapping[provider_name] = original_name
SetItem(mapping, key, value) ==
    [x \in DOMAIN mapping \cup {key} |-> IF x = key THEN value ELSE mapping[x]]

\* adapter.py:95-100: the mapping after the first k tools of the loop
RECURSIVE MappingAfter(_, _, _)
MappingAfter(tools, provider, k) ==
    IF k = 0
    THEN EmptyMapping
    ELSE SetItem(MappingAfter(tools, provider, k - 1),
                 adapt_for_provider(tools[k].namespace, tools[k].name, provider),
                 original_name(tools[k]))

\* adapter.py:84-100
build_mapping(tools, provider) == MappingAfter(tools, provider, Len(tools))

s_a   == <<97>>
s_b   == <<98>>
s_c   == <<99>>
s_a_b == <<97, 95, 98>>
s_adb == <<97, 46, 98>>
s_ahb == <<97, 45, 98>>
s_bdc == <<98, 46, 99>>

\* ToolInfo(namespace, name) values, some of which adapt to the same name
ToolPool ==
    { [namespace |-> s_adb, name |-> s_c],
      [namespace |-> s_a,   name |-> s_bdc],
      [namespace |-> s_a_b, name |-> s_c],
      [namespace |-> s_ahb, name |-> s_c],
      [namespace |-> s_a,   name |-> s_b] }

ToolLists == SeqsUpTo(ToolPool, MaxTools)

(* Applying the name conversions to one (namespace, name) pair *)

NamesInit ==
    /\ a_ns \in Strs
    /\ a_name \in Strs
    /\ a_op = "none"
    /\ a_out = <<>>

Apply(op, value) ==
    /\ a_op = "none"
    /\ a_op' = op
    /\ a_out' = value
    /\ UNCHANGED <<a_ns, a_name, sessionVars, mappingVars, formatVars>>

CallToOpenAI    == Apply("to_openai", to_openai_compatible(a_ns, a_name))
CallToAnthropic == Apply("to_anthropic", to_anthropic_compatible(a_ns, a_name))
CallToGemini    == Apply("to_gemini", to_gemini_compatible(a_ns, a_name))
\* the OpenAI name handed to from_openai_compatible: a_ns followed by a_name
OpenAIInput     == a_ns \o a_name
CallFromOpenAI  == Apply("from_openai", from_openai_compatible(OpenAIInput))
CallRoundTrip   ==
    Apply("round_trip", from_openai_compatible(to_openai_compatible(a_ns, a_name)))

NamesNext ==
    \/ CallToOpenAI
    \/ CallToAnthropic
    \/ CallToGemini
    \/ CallFromOpenAI
    \/ CallRoundTrip

InitNames == SessionIdle /\ NamesInit /\ MappingIdle /\ FormatIdle

SpecNames == InitNames /\ [][NamesNext]_vars

(* Applying adapt_for_provider to one (namespace, name) pair and provider *)

AdaptInit ==
    /\ a_ns \in Strs
    /\ a_name \in SeqsUpTo(Alphabet, 1)
    /\ a_op = "none"
    /\ a_out = <<>>
    /\ m_tools = <<>>
    /\ m_provider \in Providers
    /\ m_out = NoMapping

CallAdaptForProvider ==
    Apply("adapt", adapt_for_provider(a_ns, a_name, m_provider))

AdaptNext == CallAdaptForProvider

InitAdapt == SessionIdle /\ AdaptInit /\ FormatIdle

SpecAdapt == InitAdapt /\ [][AdaptNext]_vars

(* Applying to_openai_compatible to names of about 100 characters *)

\* test_adapter.py:210-211, "a" * 100 and "b" * 100
LongLen == 100

\* test_adapter.py:217, the length the test allows
NameLimit == 200

Repeat(c, n) == [i \in 1..n |-> c]

LongInit ==
    /\ \E n, m \in (LongLen - LongSpan)..LongLen :
          /\ a_ns = Repeat(97, n)
          /\ a_name = Repeat(98, m)
    /\ a_op = "none"
    /\ a_out = <<>>

LongNext == CallToOpenAI

InitLong == SessionIdle /\ LongInit /\ MappingIdle /\ FormatIdle

SpecLong == InitLong /\ [][LongNext]_vars

(* Applying build_mapping to one tool list and provider *)

MappingInit ==
    /\ m_tools \in ToolLists
    /\ m_provider \in Providers
    /\ m_out = NoMapping

CallBuildMapping ==
    /\ m_out = NoMapping
    /\ m_out' = [built |-> TRUE, mapping |-> build_mapping(m_tools, m_provider)]
    /\ UNCHANGED <<m_tools, m_provider, sessionVars, namesVars, formatVars>>

MappingNext == CallBuildMapping

InitMapping == SessionIdle /\ NamesIdle /\ MappingInit /\ FormatIdle

SpecMapping == InitMapping /\ [][MappingNext]_vars

(* Every operation of ToolNameAdapter, on each of the inputs above *)

InitAdapter == InitNames \/ InitAdapt \/ InitMapping

AdapterNext == NamesNext \/ AdaptNext \/ MappingNext

SpecAdapter == InitAdapter /\ [][AdapterNext]_vars

----------------------------------------------------------------------------
(* Properties of the sessions *)

Done(s) == pc[s] = "done"

Mentions(text, word) == \E i \in DOMAIN text : text[i] = word

\* the providers the client factory accepts, compared case-insensitively
SupportedProvider(p) == Lower(p) \in {s_openai, s_anthropic, s_gemini}

IsList(x) == DOMAIN x = 1..Len(x)

MetadataKeys ==
    {"total_execution_time", "total_iterations", "tools_discovered",
     "servers_connected", "backtrack_count", "success_rate", "token_usage"}

WellFormed(r) ==
    /\ r.returned
    /\ r.success \in BOOLEAN
    /\ IsList(r.summary)
    /\ IsList(r.tool_chain)
    /\ IsList(r.conversation_history)
    /\ IsList(r.errors)
    /\ \A i \in DOMAIN r.errors :
          {"iteration", "tool_name", "error"} \subseteq DOMAIN r.errors[i]
    /\ DOMAIN r.execution_metadata = MetadataKeys
    /\ r.execution_metadata.total_execution_time >= 0
    /\ r.execution_metadata.total_iterations >= 0
    /\ r.execution_metadata.backtrack_count >= 0
    /\ r.execution_metadata.success_rate \in 0..100
    /\ r.execution_metadata.token_usage.total_tokens =
          r.execution_metadata.token_usage.prompt_tokens
          + r.execution_metadata.token_usage.completion_tokens

Successful(chain) == {i \in DOMAIN chain : chain[i].success}

\* success_rate (in percent) is successful calls / calls, 100 for no calls
RateMatches(r) ==
    IF Len(r.tool_chain) = 0
    THEN r.execution_metadata.success_rate = 100
    ELSE r.execution_metadata.success_rate * Len(r.tool_chain)
            = 100 * Cardinality(Successful(r.tool_chain))

\* C1: no fault escapes mcp_ghost and every returned result is well formed;
\* when the imports fail the result is the failure result (success False, a
\* summary naming the dependencies, one error entry tagged "system"), and
\* otherwise the result has success True.
C1_ResultNeverFault ==
    \A s \in Sessions :
        /\ pc[s] # "raised"
        /\ Done(s) =>
              /\ WellFormed(result[s])
              /\ IF deps_importable
                 THEN result[s].success = TRUE
                 ELSE /\ result[s].success = FALSE
                      /\ Mentions(result[s].summary, "dependencies")
                      /\ Len(result[s].errors) = 1
                      /\ result[s].errors[1].tool_name = "system"

C1_Witness ==
    \E s \in Sessions :
        Done(s) /\ ~deps_importable /\ result[s].errors # <<>>

\* C5 as stated: in every returned result success_rate is successful calls /
\* calls, and 1.0 when the tool chain is empty.
C5_RateEveryResult ==
    \A s \in Sessions : Done(s) => RateMatches(result[s])

\* C5 as amended: in every result returned after the imports succeeded
\* success_rate is successful calls / calls, and 1.0 for an empty tool chain;
\* the dependency-failure result has an empty tool chain and success_rate 0.0.
C5_RateUnlessDependencyFailure ==
    \A s \in Sessions :
        Done(s) =>
            IF deps_importable
            THEN RateMatches(result[s])
            ELSE /\ result[s].tool_chain = <<>>
                 /\ result[s].execution_metadata.success_rate = 0

C5_Witness ==
    \E s \in Sessions :
        /\ Done(s)
        /\ deps_importable
        /\ result[s].tool_chain = <<>>
        /\ result[s].execution_metadata.success_rate = 100

\* C6: with a provider that is none of openai, anthropic, gemini (case
\* ignored) the session does not report success and carries an error entry
\* tagged "system" that says "Unsupported provider".
C6_UnsupportedProviderRejected ==
    \A s \in Sessions :
        (Done(s) /\ ~SupportedProvider(cfg.provider)) =>
            /\ result[s].success = FALSE
            /\ \E i \in DOMAIN result[s].errors :
                  /\ result[s].errors[i].tool_name = "system"
                  /\ Mentions(result[s].errors[i].error, "Unsupported")

\* the provider answers each of the first max_iterations turns with a tool call
CapExhausted ==
    /\ cfg.max_iterations >= 1
    /\ Len(llm_script) >= cfg.max_iterations
    /\ \A i \in 1..cfg.max_iterations : IsToolCall(llm_script[i])

\* C7: total_iterations never exceeds max_iterations; a session whose provider
\* asks for tools at every turn up to max_iterations ends with success False
\* and a summary naming the iteration cap; with max_iterations = 1 the tool
\* chain has at most one entry.
C7_IterationCap ==
    \A s \in Sessions :
        Done(s) =>
            /\ result[s].execution_metadata.total_iterations <= cfg.max_iterations
            /\ (cfg.max_iterations = 1 => Len(result[s].tool_chain) <= 1)
            /\ (deps_importable /\ SupportedProvider(cfg.provider) /\ CapExhausted) =>
                  /\ result[s].success = FALSE
                  /\ Mentions(result[s].summary, "iteration")

\* C8: every session that was started eventually returns a result, and the
\* result reports no backtracking re-prompt.
C8_SessionTerminates ==
    /\ \A s \in Sessions : (pc[s] # "idle") ~> (Done(s) /\ result[s].returned)
    /\ [](\A s \in Sessions :
             Done(s) => result[s].execution_metadata.backtrack_count = 0)

C8_Witness ==
    \E s \in Sessions :
        /\ Done(s)
        /\ result[s].returned
        /\ \E t \in Sessions : pc[t] = "import"

ContainerIds(r) ==
    {r.ids.tool_chain, r.ids.conversation_history, r.ids.errors,
     r.ids.execution_metadata, r.ids.token_usage}

\* C9: two sessions on one configuration object both return well-formed
\* results whose tool_chain, conversation_history, errors and
\* execution_metadata objects are not shared, and no step changes the
\* configuration.
C9_SessionsShareNothing ==
    /\ [](\A s, t \in Sessions :
             (s # t /\ Done(s) /\ Done(t)) =>
                 /\ WellFormed(result[s])
                 /\ WellFormed(result[t])
                 /\ ContainerIds(result[s]) \cap ContainerIds(result[t]) = {}
                 /\ Cardinality(ContainerIds(result[s])) = ContainersPerResult)
    /\ [][cfg' = cfg]_vars

C9_Witness ==
    \A s \in Sessions : Done(s) /\ result[s].returned

\* the provider's first answer is plain text
AnswersDirectly ==
    /\ cfg.max_iterations >= 1
    /\ Len(llm_script) >= 1
    /\ llm_script[1] = "text"

\* C10: a session whose provider answers directly, without a tool call, ends
\* with success True and an empty tool chain.
C10_DirectAnswerSucceeds ==
    \A s \in Sessions :
        (Done(s) /\ deps_importable /\ SupportedProvider(cfg.provider)
                 /\ AnswersDirectly) =>
            /\ result[s].success = TRUE
            /\ result[s].tool_chain = <<>>

C10_Witness ==
    \E s \in Sessions :
        /\ Done(s)
        /\ deps_importable
        /\ SupportedProvider(cfg.provider)
        /\ AnswersDirectly
        /\ result[s].success


\* the session reaches the provider: imports done, provider accepted, at
\* least one iteration allowed
ReachesProvider ==
    /\ deps_importable
    /\ SupportedProvider(cfg.provider)
    /\ cfg.max_iterations >= 1

\* C11: a session whose provider asks for a tool whose invocation fails does
\* not raise; its tool chain records the failed call with an error text and
\* its conversation history holds the message "Error: ...".
C11_ToolFailureFedBack ==
    \A s \in Sessions :
        /\ pc[s] # "raised"
        /\ (/\ Done(s)
            /\ ReachesProvider
            /\ Len(llm_script) >= 1
            /\ llm_script[1] = "failing_tool_call") =>
              /\ \E i \in DOMAIN result[s].tool_chain :
                    /\ result[s].tool_chain[i].success = FALSE
                    /\ result[s].tool_chain[i].error # "None"
              /\ \E i \in DOMAIN result[s].conversation_history :
                    Mentions(result[s].conversation_history[i].content, "Error:")

\* the turns, up to max_iterations, at which the provider asks for a tool
\* before its first plain-text answer
AttemptTurns ==
    {i \in 1..Len(llm_script) :
        /\ i <= cfg.max_iterations
        /\ \A j \in 1..i : IsToolCall(llm_script[j])}

\* C12: the tool chain of a result holds one entry per tool-call attempt, in
\* execution order, with 0-based iteration numbers that never decrease.
C12_ToolChainRecordsAttempts ==
    \A s \in Sessions :
        (Done(s) /\ ReachesProvider) =>
            /\ Len(result[s].tool_chain) = Cardinality(AttemptTurns)
            /\ \A i \in DOMAIN result[s].tool_chain :
                  /\ result[s].tool_chain[i].iteration >= 0
                  /\ \A j \in 1..i :
                        result[s].tool_chain[j].iteration
                            <= result[s].tool_chain[i].iteration

\* C13: the conversation history of a result starts with the system prompt
\* of the configuration, followed by its user prompt as a user message.
C13_HistorySeeded ==
    \A s \in Sessions :
        (Done(s) /\ ReachesProvider) =>
            /\ Len(result[s].conversation_history) >= 2
            /\ result[s].conversation_history[1].content = cfg.system_prompt
            /\ result[s].conversation_history[2].role = "user"
            /\ result[s].conversation_history[2].content = cfg.user_prompt


----------------------------------------------------------------------------
(* Properties of the name adapter *)

\* C2: to_openai_compatible returns a non-empty string of characters of
\* [a-zA-Z0-9_-] (all of them ASCII), whatever the namespace and the name.
C2_OpenAINameValid ==
    a_op = "to_openai" =>
        /\ Len(a_out) >= 1
        /\ \A i \in 1..Len(a_out) :
              /\ a_out[i] < 128
              /\ \/ a_out[i] \in 97..122
                 \/ a_out[i] \in 65..90
                 \/ a_out[i] \in 48..57
                 \/ a_out[i] \in {95, 45}

C2_Witness ==
    /\ a_op = "to_openai"
    /\ a_ns = <<>>
    /\ \E i \in DOMAIN a_name : a_name[i] >= 128

IsAscii(s) == \A i \in DOMAIN s : s[i] < 128

\* C3 as stated: for ASCII namespace and name without underscore,
\* from_openai_compatible(to_openai_compatible(namespace, name)) is
\* namespace + "." + name.
C3_RoundTripAsciiNoUnderscore ==
    (/\ a_op = "round_trip"
     /\ IsAscii(a_ns) /\ IsAscii(a_name)
     /\ Underscore \notin Range(a_ns) \cup Range(a_name))
        => a_out = a_ns \o <<Dot>> \o a_name

PlainChars == (97..122) \cup (65..90) \cup (48..57) \cup {45}

\* C3 as amended: for namespace and name made only of characters of
\* [a-zA-Z0-9-], from_openai_compatible(to_openai_compatible(namespace, name))
\* is namespace + "." + name.
C3_RoundTripPlainNames ==
    (/\ a_op = "round_trip"
     /\ Range(a_ns) \cup Range(a_name) \subseteq PlainChars)
        => a_out = a_ns \o <<Dot>> \o a_name

C3_Witness ==
    /\ a_op = "round_trip"
    /\ Range(a_ns) \cup Range(a_name) \subseteq PlainChars
    /\ Hyphen \in Range(a_ns)
    /\ a_name # <<>>
    /\ a_out = a_ns \o <<Dot>> \o a_name

AdaptedName(i) ==
    adapt_for_provider(m_tools[i].namespace, m_tools[i].name, m_provider)

\* the last position of the tool list whose tool adapts to key
LastAdapting(key) ==
    CHOOSE i \in DOMAIN m_tools :
        /\ AdaptedName(i) = key
        /\ \A j \in DOMAIN m_tools : AdaptedName(j) = key => j <= i

\* C4: build_mapping has exactly the provider-adapted names of the tools as
\* keys, each mapped to the canonical namespace.name of the last tool of the
\* list that adapts to it; an empty list gives an empty mapping.
C4_MappingLastWins ==
    m_out.built =>
        /\ DOMAIN m_out.mapping = {AdaptedName(i) : i \in DOMAIN m_tools}
        /\ \A key \in DOMAIN m_out.mapping :
              m_out.mapping[key] =
                 m_tools[LastAdapting(key)].namespace \o <<Dot>>
                    \o m_tools[LastAdapting(key)].name
        /\ (m_tools = <<>> => DOMAIN m_out.mapping = {})

C4_Witness ==
    /\ m_out.built
    /\ Len(m_tools) = 2
    /\ AdaptedName(1) = AdaptedName(2)
    /\ original_name(m_tools[1]) # original_name(m_tools[2])
    /\ Cardinality(DOMAIN m_out.mapping) = 1
    /\ m_out.mapping[AdaptedName(1)] = original_name(m_tools[2])


IsStr(x) == /\ DOMAIN x = 1..Len(x)
            /\ \A i \in DOMAIN x : x[i] \in Nat

\* C14: no operation of ToolNameAdapter raises: each conversion returns a
\* string, and build_mapping returns a mapping from strings to strings.
C14_AdapterTotal ==
    /\ a_op # "none" => IsStr(a_out)
    /\ m_out.built =>
          \A key \in DOMAIN m_out.mapping :
              IsStr(key) /\ IsStr(m_out.mapping[key])

C14_Witness ==
    /\ a_op = "from_openai"
    /\ Underscore \notin Range(OpenAIInput)
    /\ \E i \in DOMAIN OpenAIInput : OpenAIInput[i] >= 128
    /\ IsStr(a_out)

\* C15: to_openai_compatible returns at most 200 characters, "_" among
\* them, also for a namespace and a name of 100 characters each.
C15_LongNameWithinLimit ==
    a_op = "to_openai" =>
        /\ Len(a_out) <= NameLimit
        /\ Underscore \in Range(a_out)

\* C16: from_openai_compatible returns a name without underscore unchanged,
\* and otherwise replaces the first underscore, and only it, by a dot.
C16_SplitAtFirstUnderscore ==
    a_op = "from_openai" =>
        IF Underscore \notin Range(OpenAIInput)
        THEN a_out = OpenAIInput
        ELSE \E k \in DOMAIN OpenAIInput :
                /\ OpenAIInput[k] = Underscore
                /\ \A j \in 1..(k - 1) : OpenAIInput[j] # Underscore
                /\ Len(a_out) = Len(OpenAIInput)
                /\ a_out[k] = Dot
                /\ \A j \in DOMAIN OpenAIInput :
                      j # k => a_out[j] = OpenAIInput[j]

C16_Witness ==
    /\ a_op = "from_openai"
    /\ Cardinality({i \in DOMAIN OpenAIInput : OpenAIInput[i] = Underscore}) >= 2
    /\ Underscore \in Range(a_out)
    /\ Dot \in Range(a_out)

\* C17: adapt_for_provider ignores the case of the provider and returns the
\* OpenAI name for "openai", the Anthropic name for "anthropic", the Gemini
\* name for "gemini" and namespace + "." + name for any other provider.
C17_AdaptDispatch ==
    a_op = "adapt" =>
        a_out =
            CASE m_provider \in {s_openai, s_OpenAI} ->
                    to_openai_compatible(a_ns, a_name)
              [] m_provider \in {s_anthropic, s_ANTHROPIC} ->
                    to_anthropic_compatible(a_ns, a_name)
              [] m_provider \in {s_gemini, s_GEMINI} ->
                    to_gemini_compatible(a_ns, a_name)
              [] OTHER -> a_ns \o <<Dot>> \o a_name

C17_Witness ==
    /\ a_op = "adapt"
    /\ m_provider = s_GEMINI
    /\ Hyphen \in Range(a_ns)
    /\ Hyphen \notin Range(a_out)

\* C18: to_gemini_compatible returns only characters of [a-zA-Z0-9_]: the
\* OpenAI name with every "-" replaced by "_".
C18_GeminiName ==
    a_op = "to_gemini" =>
        LET openai == to_openai_compatible(a_ns, a_name)
        IN  /\ \A i \in 1..Len(a_out) :
                  \/ a_out[i] \in 97..122
                  \/ a_out[i] \in 65..90
                  \/ a_out[i] \in 48..57
                  \/ a_out[i] = 95
            /\ Len(a_out) = Len(openai)
            /\ \A i \in 1..Len(openai) :
                  a_out[i] = IF openai[i] = Hyphen THEN Underscore ELSE openai[i]

C18_Witness ==
    /\ a_op = "to_gemini"
    /\ Hyphen \in Range(a_ns)
    /\ \E i \in DOMAIN a_name : a_name[i] >= 128

\* C19: to_anthropic_compatible returns the namespace, a dot and the name,
\* every character as given.
C19_AnthropicVerbatim ==
    a_op = "to_anthropic" =>
        /\ Len(a_out) = Len(a_ns) + 1 + Len(a_name)
        /\ \A i \in 1..Len(a_ns) : a_out[i] = a_ns[i]
        /\ a_out[Len(a_ns) + 1] = 46
        /\ \A i \in 1..Len(a_name) : a_out[Len(a_ns) + 1 + i] = a_name[i]

C19_Witness ==
    /\ a_op = "to_anthropic"
    /\ \E i \in DOMAIN a_ns : a_ns[i] >= 128
    /\ Underscore \in Range(a_name)


(***************************************************************************)
(* ResponseFormatter (mcp_ghost/tools/formatter.py).  The module is not    *)
(* part of the source tree; only its tests are.  format_tool_response is   *)
(* modelled from the normalization algorithm of the specification (4.2)    *)
(* and from tests/tools/test_formatter.py.                                 *)
(*                                                                         *)
(* A Python value is a tagged record.  Texts are sequences of code points, *)
(* as in the adapter.  A value json.dumps cannot serialize carries the     *)
(* text Python's str() gives for it (field str): str() is the              *)
(* interpreter's, not the formatter's.                                     *)
(***************************************************************************)
MaxItems == 2

PyStr(s)   == [t |-> "str", s |-> s]
PyInt(n)   == [t |-> "int", n |-> n]
PyList(xs) == [t |-> "list", items |-> xs]
PyDict(ps) == [t |-> "dict", pairs |-> ps]
Pair(k, v) == [k |-> k, v |-> v]
\* a value json.dumps fails on: an object without a JSON encoding, or a
\* list or dict that holds such an object or refers to itself
Unserializable(kind, cause, str) == [t |-> kind, cause |-> cause, str |-> str]

Quote == 34
Backslash == 92
Newline == 10
Space == 32
Comma == 44
Colon == 58

c_null == <<110, 117, 108, 108>>                  \* null
c_None == <<78, 111, 110, 101>>                   \* None
c_type == <<116, 121, 112, 101>>                  \* type
c_text == <<116, 101, 120, 116>>                  \* text
c_key  == <<107, 101, 121>>                       \* key
c_value == <<118, 97, 108, 117, 101>>             \* value
c_data == <<100, 97, 116, 97>>                    \* data
c_self == <<115, 101, 108, 102>>                  \* self

\* json.dumps raises TypeError on an object without an encoding and
\* ValueError on a circular reference
Serializable(v) == v.t \in {"none", "str", "int", "list", "dict"} /\ "str" \notin DOMAIN v

RECURSIVE EscapeStr(_)
EscapeStr(s) ==
    IF s = <<>> THEN <<>>
    ELSE LET c == Head(s)
             e == IF c = Quote THEN <<Backslash, Quote>>
                  ELSE IF c = Backslash THEN <<Backslash, Backslash>>
                  ELSE IF c = Newline THEN <<Backslash, 110>>
                  ELSE <<c>>
         IN  e \o EscapeStr(Tail(s))

DumpsStrUnescaped(s) == <<Quote>> \o s \o <<Quote>>

DumpsStr(s) == <<Quote>> \o EscapeStr(s) \o <<Quote>>

RECURSIVE Digits(_)
Digits(n) == IF n < 10 THEN <<48 + n>> ELSE Digits(n \div 10) \o <<48 + (n % 10)>>

\* json.dumps with the default separators ", " and ": "
RECURSIVE Dumps(_)
Dumps(v) ==
    IF v.t = "none" THEN c_null
    ELSE IF v.t = "str" THEN DumpsStr(v.s)
    ELSE IF v.t = "int" THEN Digits(v.n)
    ELSE IF v.t = "list" THEN
        LET RECURSIVE Items(_)
            Items(i) ==
                IF i > Len(v.items) THEN <<>>
                ELSE (IF i > 1 THEN <<Comma, Space>> ELSE <<>>)
                     \o Dumps(v.items[i]) \o Items(i + 1)
        IN  <<91>> \o Items(1) \o <<93>>
    ELSE
        LET RECURSIVE Pairs(_)
            Pairs(i) ==
                IF i > Len(v.pairs) THEN <<>>
                ELSE (IF i > 1 THEN <<Comma, Space>> ELSE <<>>)
                     \o DumpsStr(v.pairs[i].k) \o <<Colon, Space>>
                     \o Dumps(v.pairs[i].v) \o Pairs(i + 1)
        IN  <<123>> \o Pairs(1) \o <<125>>


\* json.loads: a recursive-descent parser of the JSON text
ParseError == [t |-> "error"]
Failed == [ok |-> FALSE, val |-> ParseError, next |-> 0]
Parsed(v, i) == [ok |-> TRUE, val |-> v, next |-> i]

At(s, i) == IF i \in DOMAIN s THEN s[i] ELSE 0

RECURSIVE SkipWs(_, _)
SkipWs(s, i) == IF At(s, i) \in {Space, Newline} THEN SkipWs(s, i + 1) ELSE i

RECURSIVE ScanStr(_, _, _)
ScanStr(s, i, acc) ==
    LET c == At(s, i)
        e == At(s, i + 1)
    IN  IF c = Quote THEN Parsed(acc, i + 1)
        ELSE IF c = Backslash THEN
            IF e = Quote THEN ScanStr(s, i + 2, Append(acc, Quote))
            ELSE IF e = Backslash THEN ScanStr(s, i + 2, Append(acc, Backslash))
            ELSE IF e = 110 THEN ScanStr(s, i + 2, Append(acc, Newline))
            ELSE Failed
        ELSE IF c < Space THEN Failed          \* end of text, control character
        ELSE ScanStr(s, i + 1, Append(acc, c))

ParseStr(s, i) == IF At(s, i) = Quote THEN ScanStr(s, i + 1, <<>>) ELSE Failed

RECURSIVE ScanInt(_, _, _)
ScanInt(s, i, n) ==
    IF At(s, i) \in 48..57 THEN ScanInt(s, i + 1, 10 * n + (At(s, i) - 48))
    ELSE Parsed(PyInt(n), i)

RECURSIVE ParseValue(_, _)
RECURSIVE ParseItems(_, _, _)
RECURSIVE ParsePairs(_, _, _)

ParseValue(s, i) ==
    LET c == At(s, i)
    IN  IF c = Quote THEN
            LET r == ParseStr(s, i)
            IN  IF r.ok THEN Parsed(PyStr(r.val), r.next) ELSE Failed
        ELSE IF c = 110 THEN
            IF i + 3 <= Len(s) /\ SubSeq(s, i, i + 3) = c_null
            THEN Parsed(PyNone, i + 4) ELSE Failed
        ELSE IF c = 48 THEN
            IF At(s, i + 1) \in 48..57 THEN Failed ELSE Parsed(PyInt(0), i + 1)
        ELSE IF c \in 49..57 THEN ScanInt(s, i, 0)
        ELSE IF c = 91 THEN
            LET j == SkipWs(s, i + 1)
            IN  IF At(s, j) = 93 THEN Parsed(PyList(<<>>), j + 1)
                ELSE ParseItems(s, j, <<>>)
        ELSE IF c = 123 THEN
            LET j == SkipWs(s, i + 1)
            IN  IF At(s, j) = 125 THEN Parsed(PyDict(<<>>), j + 1)
                ELSE ParsePairs(s, j, <<>>)
        ELSE Failed

ParseItems(s, i, acc) ==
    LET r == ParseValue(s, i)
    IN  IF ~r.ok THEN Failed
        ELSE LET j == SkipWs(s, r.next)
                 items == Append(acc, r.val)
             IN  IF At(s, j) = 93 THEN Parsed(PyList(items), j + 1)
                 ELSE IF At(s, j) = Comma THEN ParseItems(s, SkipWs(s, j + 1), items)
                 ELSE Failed

ParsePairs(s, i, acc) ==
    LET k == ParseStr(s, i)
    IN  IF ~k.ok THEN Failed
        ELSE LET c == SkipWs(s, k.next)
             IN  IF At(s, c) # Colon THEN Failed
                 ELSE LET r == ParseValue(s, SkipWs(s, c + 1))
                      IN  IF ~r.ok THEN Failed
                          ELSE LET j == SkipWs(s, r.next)
                                   pairs == Append(acc, Pair(k.val, r.val))
                               IN  IF At(s, j) = 125 THEN Parsed(PyDict(pairs), j + 1)
                                   ELSE IF At(s, j) = Comma
                                        THEN ParsePairs(s, SkipWs(s, j + 1), pairs)
                                   ELSE Failed

Loads(s) ==
    LET r == ParseValue(s, SkipWs(s, 1))
    IN  IF r.ok /\ SkipWs(s, r.next) = Len(s) + 1 THEN r.val ELSE ParseError


HasKey(d, k) == \E i \in DOMAIN d.pairs : d.pairs[i].k = k
\* dict.get: the value under the key, None when the key is absent
Get(d, k) ==
    IF HasKey(d, k) THEN d.pairs[CHOOSE i \in DOMAIN d.pairs : d.pairs[i].k = k].v
    ELSE PyNone

TextRecord(s) == PyDict(<<Pair(c_type, PyStr(c_text)), Pair(c_text, PyStr(s))>>)

IsTextRecord(e) ==
    /\ e.t = "dict"
    /\ "pairs" \in DOMAIN e
    /\ Get(e, c_type) = PyStr(c_text)
    /\ HasKey(e, c_text)

IsTextRecordsEmptyIncluded(v) ==
    /\ v.t = "list"
    /\ "items" \in DOMAIN v
    /\ \A i \in DOMAIN v.items : IsTextRecord(v.items[i])

IsTextRecords(v) ==
    /\ v.t = "list"
    /\ "items" \in DOMAIN v
    /\ v.items # <<>>
    /\ \A i \in DOMAIN v.items : IsTextRecord(v.items[i])

\* "\n".join(item["text"] for item in items)
RECURSIVE JoinLines(_)
JoinLines(items) ==
    IF items = <<>> THEN <<>>
    ELSE IF Len(items) = 1 THEN Get(items[1], c_text).s
    ELSE Get(items[1], c_text).s \o <<Newline>> \o JoinLines(Tail(items))

format_tool_response_priority_order(v) ==
    IF v.t = "str" THEN v.s
    ELSE IF IsTextRecords(v) THEN JoinLines(v.items)
    ELSE IF Serializable(v) THEN Dumps(v)
    ELSE v.str

\* the normalization algorithm: a string unchanged, None as the text None,
\* text records joined, else JSON text, else (json.dumps raised) str(value)
format_tool_response(v) ==
    IF v.t = "str" THEN v.s
    ELSE IF v = PyNone THEN c_None
    ELSE IF IsTextRecords(v) THEN JoinLines(v.items)
    ELSE IF Serializable(v) THEN Dumps(v)
    ELSE v.str

\* the values the tests hand to format_tool_response
FAlphabet == {97, Quote, Backslash, Newline}
FStrs == SeqsUpTo(FAlphabet, MaxLen)
FInts == {0, 7, 42}
Scalars == {PyNone} \cup {PyStr(s) : s \in FStrs} \cup {PyInt(n) : n \in FInts}

Elems ==
    { TextRecord(<<97>>), TextRecord(<<>>), TextRecord(<<Quote, 97>>),
      PyDict(<<Pair(c_type, PyStr(c_text))>>),
      PyDict(<<Pair(c_type, PyStr(c_data)), Pair(c_text, PyStr(<<97>>))>>),
      PyDict(<<Pair(c_key, PyStr(c_value))>>),
      PyInt(7), PyNone, PyStr(<<Quote>>), PyList(<<>>) }

Lists == {PyList(xs) : xs \in SeqsUpTo(Elems, MaxItems)}

Dicts ==
    {PyDict(<<>>), PyDict(<<Pair(c_key, PyStr(c_value)), Pair(c_data, PyInt(42))>>)}
    \cup {PyDict(<<Pair(k, v)>>) :
            k \in {c_key, <<>>, <<Quote>>},
            v \in Scalars \cup {PyList(<<PyInt(7), PyInt(42)>>),
                                PyDict(<<Pair(c_key, PyNone)>>)}}

\* non-serializable object
s_object ==
    <<110, 111, 110, 45, 115, 101, 114, 105, 97, 108, 105, 122, 97, 98, 108, 101, 32, 111, 98, 106, 101, 99, 116>>
\* {'data': <NonSerializable object>}
s_dictobj ==
    <<123, 39, 100, 97, 116, 97, 39, 58, 32, 60, 78, 111, 110, 83, 101, 114, 105, 97, 108, 105, 122, 97, 98, 108, 101, 32, 111, 98, 106, 101, 99, 116, 62, 125>>
\* [<NonSerializable object>]
s_listobj ==
    <<91, 60, 78, 111, 110, 83, 101, 114, 105, 97, 108, 105, 122, 97, 98, 108, 101, 32, 111, 98, 106, 101, 99, 116, 62, 93>>
\* {'key': 'value', 'self': {...}}
s_circular ==
    <<123, 39, 107, 101, 121, 39, 58, 32, 39, 118, 97, 108, 117, 101, 39, 44, 32, 39, 115, 101, 108, 102, 39, 58, 32, 123, 46, 46, 46, 125, 125>>

Unserializables ==
    { Unserializable("object", "no encoder", s_object),
      Unserializable("dict", "no encoder", s_dictobj),
      Unserializable("list", "no encoder", s_listobj),
      Unserializable("dict", "circular", s_circular) }

Values == Scalars \cup Lists \cup Dicts \cup Unserializables

(***************************************************************************)
(* ToolCallResult (mcp_ghost/tools/models.py, not part of the source tree; *)
(* modelled from the data model of the specification (3) and from          *)
(* tests/tools/test_models.py) and format_tool_call_result.                *)
(***************************************************************************)
c_Error_prefix  == <<69, 114, 114, 111, 114, 58, 32>>                       \* "Error: "
c_Unknown_error == <<85, 110, 107, 110, 111, 119, 110, 32, 101, 114, 114, 111, 114>>   \* "Unknown error"
s_failed == <<84, 111, 111, 108, 32, 101, 120, 101, 99, 117, 116, 105, 111, 110, 32, 102, 97, 105, 108, 101, 100>>   \* "Tool execution failed"
s_tool == <<116, 101, 115, 116, 95, 116, 111, 111, 108>>                   \* "test_tool"

ToolCallResultUnvalidated(tool_name, success, payload, error) ==
    [t |-> "ToolCallResult", tool_name |-> tool_name, success |-> success,
     result |-> payload, error |-> error]

\* the constructor: result and error default to None; a failed result
\* never keeps error None
ToolCallResult(tool_name, success, payload, error) ==
    [t |-> "ToolCallResult", tool_name |-> tool_name, success |-> success,
     result |-> payload,
     error |-> IF ~success /\ error = PyNone THEN PyStr(c_Unknown_error) ELSE error]

\* Python truth value: None, "", {}, [] and 0 are false
Falsy == {PyNone, PyStr(<<>>), PyDict(<<>>), PyList(<<>>), PyInt(0)}
Truthy(e) == e \notin Falsy

format_tool_call_result_error_verbatim(r) ==
    IF r.success THEN format_tool_response(r.result)
    ELSE c_Error_prefix \o (IF r.error = PyNone THEN c_None ELSE r.error.s)

\* f"Error: {result.error or 'Unknown error'}" when the call failed
format_tool_call_result(r) ==
    IF r.success THEN format_tool_response(r.result)
    ELSE c_Error_prefix \o (IF Truthy(r.error) THEN r.error.s ELSE c_Unknown_error)

ErrorArgs == {PyNone, PyStr(<<>>), PyStr(<<97>>), PyStr(s_failed)}

\* every combination of fields a ToolCallResult object can hold
CallResults ==
    {ToolCallResultUnvalidated(s_tool, success, payload, error) :
        success \in BOOLEAN, payload \in Values, error \in ErrorArgs}

FormatInit ==
    /\ f_in \in Values \cup CallResults
    /\ f_op = "none"
    /\ f_out = <<>>

CallFormatToolResponse ==
    /\ f_op = "none"
    /\ f_in.t # "ToolCallResult"
    /\ f_op' = "format_tool_response"
    /\ f_out' = format_tool_response(f_in)
    /\ UNCHANGED <<f_in, sessionVars, namesVars, mappingVars>>

CallFormatToolCallResult ==
    /\ f_op \in {"none", "ToolCallResult"}
    /\ f_in.t = "ToolCallResult"
    /\ f_op' = "format_tool_call_result"
    /\ f_out' = format_tool_call_result(f_in)
    /\ UNCHANGED <<f_in, sessionVars, namesVars, mappingVars>>

FormatNext == CallFormatToolResponse \/ CallFormatToolCallResult

\* result = ToolCallResult(tool_name=..., success=..., result=..., error=...)
ConstructToolCallResult(success, payload, error) ==
    /\ f_op = "none"
    /\ f_in = PyNone
    /\ f_op' = "ToolCallResult"
    /\ f_in' = ToolCallResult(s_tool, success, payload, error)
    /\ UNCHANGED <<f_out, sessionVars, namesVars, mappingVars>>

ResultsNext ==
    \/ \E success \in BOOLEAN, payload \in Values, error \in ErrorArgs :
          ConstructToolCallResult(success, payload, error)
    \/ CallFormatToolCallResult

InitResults == SessionIdle /\ NamesIdle /\ MappingIdle /\ FormatIdle

SpecResults == InitResults /\ [][ResultsNext]_vars

InitFormat == SessionIdle /\ NamesIdle /\ MappingIdle /\ FormatInit

SpecFormat == InitFormat /\ [][FormatNext]_vars

(***************************************************************************)
(* Tool declarations: format_tool_for_provider and                         *)
(* format_tools_for_provider (formatter.py), on ToolInfo records           *)
(* (models.py); modelled from the specification (3, 4.2) and from          *)
(* tests/tools/test_formatter.py.                                          *)
(***************************************************************************)
c_function   == <<102, 117, 110, 99, 116, 105, 111, 110>>   \* "function"
c_object     == <<111, 98, 106, 101, 99, 116>>             \* "object"
c_properties == <<112, 114, 111, 112, 101, 114, 116, 105, 101, 115>>   \* "properties"
c_arg1       == <<97, 114, 103, 49>>                   \* "arg1"
c_string     == <<115, 116, 114, 105, 110, 103>>           \* "string"
s_A_test_tool == <<65, 32, 116, 101, 115, 116, 32, 116, 111, 111, 108>>   \* "A test tool"

\* ToolInfo(name=..., namespace=..., description=None, parameters=None)
ToolInfo(namespace, name, description, parameters) ==
    [namespace |-> namespace, name |-> name,
     description |-> description, parameters |-> parameters]

\* {"type": "object", "properties": {}}
DefaultParameters ==
    PyDict(<<Pair(c_type, PyStr(c_object)), Pair(c_properties, PyDict(<<>>))>>)

\* {"type": "object", "properties": {"arg1": {"type": "string"}}}
SchemaArg1 ==
    PyDict(<<Pair(c_type, PyStr(c_object)),
             Pair(c_properties,
                  PyDict(<<Pair(c_arg1, PyDict(<<Pair(c_type, PyStr(c_string))>>))>>))>>)

\* x or default
Or(x, default) == IF Truthy(x) THEN x ELSE default

\* the function name of a declaration: the tests read the tool's own name
DeclaredName(tool, provider) == tool.name

format_tool_for_provider_nulls_kept(tool, provider) ==
    [type |-> c_function,
     function |-> [name |-> DeclaredName(tool, provider),
                   description |-> tool.description,
                   parameters |-> tool.parameters]]

\* {"type": "function", "function": {"name": ..., "description":
\*  tool.description or "", "parameters": tool.parameters or {...}}},
\* the same shape for every provider
format_tool_for_provider(tool, provider) ==
    [type |-> c_function,
     function |-> [name |-> DeclaredName(tool, provider),
                   description |-> Or(tool.description, PyStr(<<>>)),
                   parameters |-> Or(tool.parameters, DefaultParameters)]]

\* one declaration per tool, in input order
format_tools_for_provider(tools, provider) ==
    [i \in DOMAIN tools |-> format_tool_for_provider(tools[i], provider)]

Descriptions == {PyNone, PyStr(<<>>), PyStr(s_A_test_tool)}
ParameterSets == {PyNone, PyDict(<<>>), SchemaArg1}

DeclToolPool ==
    {ToolInfo(n.namespace, n.name, d, p) :
        n \in {[namespace |-> s_adb, name |-> s_c], [namespace |-> s_a, name |-> s_b]},
        d \in Descriptions, p \in ParameterSets}

DeclToolLists == SeqsUpTo(DeclToolPool, MaxTools)

DeclareInit ==
    /\ f_in \in [t : {"tool"}, tool : DeclToolPool, provider : Providers]
               \cup [t : {"tools"}, tools : DeclToolLists, provider : Providers]
    /\ f_op = "none"
    /\ f_out = <<>>

CallFormatToolForProvider ==
    /\ f_op = "none"
    /\ f_in.t = "tool"
    /\ f_op' = "format_tool_for_provider"
    /\ f_out' = format_tool_for_provider(f_in.tool, f_in.provider)
    /\ UNCHANGED <<f_in, sessionVars, namesVars, mappingVars>>

CallFormatToolsForProvider ==
    /\ f_op = "none"
    /\ f_in.t = "tools"
    /\ f_op' = "format_tools_for_provider"
    /\ f_out' = format_tools_for_provider(f_in.tools, f_in.provider)
    /\ UNCHANGED <<f_in, sessionVars, namesVars, mappingVars>>

DeclareNext == CallFormatToolForProvider \/ CallFormatToolsForProvider

InitDeclare == SessionIdle /\ NamesIdle /\ MappingIdle /\ DeclareInit

SpecDeclare == InitDeclare /\ [][DeclareNext]_vars

C21_NoneAsLiteralText ==
    (f_op = "format_tool_response" /\ f_in = PyNone) =>
        /\ f_out = c_None
        /\ f_out # c_null

C21_Witness ==
    /\ f_op = "format_tool_response"
    /\ f_in = PyNone
    /\ f_out = <<78, 111, 110, 101>>


\* C22: format_tool_call_result(r) is format_tool_response(r.result) when
\* r.success; otherwise it is "Error: " followed by r.error, or
\* "Error: Unknown error" when r.error is None or empty.
C22_CallResultFormat ==
    f_op = "format_tool_call_result" =>
        /\ f_in.success => f_out = format_tool_response(f_in.result)
        /\ (~f_in.success /\ f_in.error \notin {PyNone, PyStr(<<>>)}) =>
              /\ SubSeq(f_out, 1, 7) = c_Error_prefix
              /\ SubSeq(f_out, 8, Len(f_out)) = f_in.error.s
        /\ (~f_in.success /\ f_in.error \in {PyNone, PyStr(<<>>)}) =>
              f_out = c_Error_prefix \o c_Unknown_error

C22_Witness ==
    /\ f_op = "format_tool_call_result"
    /\ ~f_in.success
    /\ f_in.error = PyNone
    /\ f_out = c_Error_prefix \o c_Unknown_error

Declared == f_op \in {"format_tool_for_provider", "format_tools_for_provider"}
\* the tools handed to the operation and the declarations it returned
DeclaredTools == IF f_in.t = "tool" THEN <<f_in.tool>> ELSE f_in.tools
Declarations == IF f_op = "format_tool_for_provider" THEN <<f_out>> ELSE f_out

\* C23 (as stated): in every declaration, description and parameters are
\* never None; an absent description becomes "", absent parameters become
\* the default schema, and present values are passed through unchanged.
C23_DefaultsAndPassThrough ==
    Declared =>
        /\ Len(Declarations) = Len(DeclaredTools)
        /\ \A i \in DOMAIN Declarations :
              LET tool == DeclaredTools[i]
                  fn   == Declarations[i].function
              IN  /\ fn.description # PyNone
                  /\ fn.parameters # PyNone
                  /\ tool.description = PyNone => fn.description = PyStr(<<>>)
                  /\ tool.parameters = PyNone => fn.parameters = DefaultParameters
                  /\ tool.description # PyNone => fn.description = tool.description
                  /\ tool.parameters # PyNone => fn.parameters = tool.parameters

\* C23 (amended): as above, the parameters being passed through unchanged
\* when they are present and not empty.
C23_DefaultsAndNonEmptyPassThrough ==
    Declared =>
        /\ Len(Declarations) = Len(DeclaredTools)
        /\ \A i \in DOMAIN Declarations :
              LET tool == DeclaredTools[i]
                  fn   == Declarations[i].function
              IN  /\ fn.description # PyNone
                  /\ fn.parameters # PyNone
                  /\ tool.description = PyNone => fn.description = PyStr(<<>>)
                  /\ tool.parameters = PyNone => fn.parameters = DefaultParameters
                  /\ tool.description # PyNone => fn.description = tool.description
                  /\ tool.parameters \notin {PyNone, PyDict(<<>>)} =>
                        fn.parameters = tool.parameters

C23_Witness ==
    /\ f_op = "format_tool_for_provider"
    /\ f_in.provider = s_invalid
    /\ f_in.tool.description = PyNone
    /\ f_in.tool.parameters = SchemaArg1
    /\ f_out.function.description = PyStr(<<>>)
    /\ f_out.function.parameters = SchemaArg1

\* C25: every declaration of format_tools_for_provider(tools, provider)
\* carries a function name that is a key of build_mapping(tools, provider),
\* under which the mapping holds a canonical namespace.name of the list.
C25_DeclaredNamesInMapping ==
    f_op = "format_tools_for_provider" =>
        LET mapping == build_mapping(f_in.tools, f_in.provider)
        IN  \A i \in DOMAIN f_out :
               /\ f_out[i].function.name \in DOMAIN mapping
               /\ f_out[i].function.name
                     = adapt_for_provider(f_in.tools[i].namespace,
                                          f_in.tools[i].name, f_in.provider)


\* {"type": "text", "text": ...}: a dict with "text" under "type" and a
\* "text" key
TextRecordShaped(e) ==
    /\ e.t = "dict"
    /\ "pairs" \in DOMAIN e
    /\ \E i \in DOMAIN e.pairs : e.pairs[i] = Pair(c_type, PyStr(c_text))
    /\ \E i \in DOMAIN e.pairs : e.pairs[i].k = c_text

TextOf(e) == e.pairs[CHOOSE i \in DOMAIN e.pairs : e.pairs[i].k = c_text].v.s

\* where the text of element i starts in the joined output
RECURSIVE JoinOffset(_, _)
JoinOffset(items, i) ==
    IF i = 1 THEN 0 ELSE JoinOffset(items, i - 1) + Len(TextOf(items[i - 1])) + 1

\* out is the texts of the items, one Newline between neighbours
IsJoinOf(out, items) ==
    /\ Len(out) = JoinOffset(items, Len(items)) + Len(TextOf(items[Len(items)]))
    /\ \A i \in DOMAIN items :
          /\ SubSeq(out, JoinOffset(items, i) + 1,
                    JoinOffset(items, i) + Len(TextOf(items[i]))) = TextOf(items[i])
          /\ i > 1 => out[JoinOffset(items, i)] = Newline

AllTextRecords(v) ==
    /\ "items" \in DOMAIN v
    /\ v.items # <<>>
    /\ \A i \in DOMAIN v.items : TextRecordShaped(v.items[i])

\* a list with an element that is no text record (a list json.dumps fails
\* on holds an object, which is none)
SomeNonTextRecord(v) ==
    \/ "items" \notin DOMAIN v
    \/ \E i \in DOMAIN v.items : ~TextRecordShaped(v.items[i])

\* C26 (as stated): for a list, format_tool_response returns the
\* newline-joined texts when the list is non-empty and all text records,
\* "[]" when it is empty, and the JSON text of the whole list when some
\* element is no text record.
C26_JoinOrJson ==
    (f_op = "format_tool_response" /\ f_in.t = "list") =>
        /\ AllTextRecords(f_in) => IsJoinOf(f_out, f_in.items)
        /\ f_in = PyList(<<>>) => f_out = <<91, 93>>
        /\ SomeNonTextRecord(f_in) => Loads(f_out) = f_in

\* C26 (amended): as above, the JSON text being returned when some element
\* is no text record and the list is JSON-serializable.
C26_JoinOrJsonIfSerializable ==
    (f_op = "format_tool_response" /\ f_in.t = "list") =>
        /\ AllTextRecords(f_in) => IsJoinOf(f_out, f_in.items)
        /\ f_in = PyList(<<>>) => f_out = <<91, 93>>
        /\ (SomeNonTextRecord(f_in) /\ Serializable(f_in)) => Loads(f_out) = f_in

C26_Witness ==
    /\ f_op = "format_tool_response"
    /\ f_in = PyList(<<TextRecord(<<97>>), TextRecord(<<Quote, 97>>)>>)
    /\ f_out = <<97, Newline, Quote, 97>>


\* C27: from_openai_compatible(to_openai_compatible(namespace, name)) is
\* namespace + "." + name exactly when the namespace has only characters of
\* [a-zA-Z0-9-] and the name only characters of [a-zA-Z0-9_-].
C27_RoundTripExactDomain ==
    a_op = "round_trip" =>
        ((a_out = a_ns \o <<46>> \o a_name)
            <=> (/\ \A i \in DOMAIN a_ns :
                       a_ns[i] \in (97..122) \cup (65..90) \cup (48..57) \cup {45}
                 /\ \A i \in DOMAIN a_name :
                       a_name[i] \in (97..122) \cup (65..90) \cup (48..57) \cup {95, 45}))

C27_Witness ==
    /\ a_op = "round_trip"
    /\ a_ns = <<97, 45>>
    /\ a_name = <<95, 66>>
    /\ a_out = <<97, 45, 46, 95, 66>>

C29_IdentityMapping ==
    (m_out.built /\ Lower(m_provider) \notin {s_openai, s_gemini}) =>
        /\ \A key \in DOMAIN m_out.mapping : m_out.mapping[key] = key
        /\ DOMAIN m_out.mapping =
              {m_tools[i].namespace \o <<46>> \o m_tools[i].name : i \in DOMAIN m_tools}

C29_Witness ==
    /\ m_out.built
    /\ m_provider = s_invalid
    /\ m_tools = <<[namespace |-> s_adb, name |-> s_c],
                   [namespace |-> s_a, name |-> s_bdc]>>
    /\ DOMAIN m_out.mapping = {<<97, 46, 98, 46, 99>>}


\* the fields of a result as values (object identities left out)
FieldValues(r) == [f \in (DOMAIN r) \ {"ids"} |-> r[f]]

\* the texts a result carries
ResultTexts(r) ==
    {r.final_result} \cup Range(r.summary)
        \cup UNION {Range(r.errors[i].error) \cup Range(r.errors[i].recovery_action)
                       \cup {r.errors[i].tool_name} : i \in DOMAIN r.errors}

\* C30: the results returned to two sessions started with any two
\* configurations are equal field by field, and no text of a result is the
\* api_key of its configuration.
C30_ResultIgnoresConfig ==
    \A s, u \in Sessions :
        (Done(s) /\ Done(u)) =>
            /\ FieldValues(result[s]) = FieldValues(result[u])
            /\ cfg[s].api_key \notin ResultTexts(result[s])

C30_Witness ==
    /\ Done(1) /\ Done(2)
    /\ deps_importable
    /\ cfg[1].provider # cfg[2].provider
    /\ cfg[1].api_key # cfg[2].api_key
    /\ cfg[1].user_prompt # cfg[2].user_prompt
    /\ cfg[1].max_iterations # cfg[2].max_iterations
    /\ result[1].success /\ result[2].success

====
